---- MODULE Spec2Model ----
(***************************************************************************)
(* Model of the W3ID URL batch updater of the GeoArchive repository        *)
(* (notebooks/GeoArchive - Zotero - W3ID_URL.ipynb).                       *)
(*                                                                         *)
(* The notebook pages through the report items of a Zotero group library,  *)
(* derives a w3id.org URL for every item and posts the updates back one    *)
(* page at a time.  The Zotero client (pyzotero) and the remote library    *)
(* are collaborators outside the repository: they are modelled by the      *)
(* call contract the notebook uses (items / iterfollow / update_items).    *)
(* Every collaborator call is modelled as two steps, the call being issued *)
(* and the call returning (or raising), so that the order and overlap of   *)
(* requests is visible in the state.                                       *)
(***************************************************************************)
EXTENDS Naturals, Sequences, FiniteSets, TLC

(* ------------------------------ bounds -------------------------------- *)

\* Largest number of pages the collaborator hands out in one run (the first
\* page included) before it has to signal exhaustion.
MaxPages == 3

\* Largest number of items in one page.  The notebook asks for limit=50; the
\* model scales the page size down.
MaxPageSize == 2

\* Number of writes other clients of the library make during one run.
MaxWrites == 1

\* Number of times the notebook is run over the same library.
MaxRuns == 2

(* --------------------------- the remote library ----------------------- *)

\* Keys of the items of the library, in the order the service lists them.
CollectionOrder == <<"ABC123", "DEF456", "GHI789", "NOTE01">>

Keys == {CollectionOrder[i] : i \in 1..Len(CollectionOrder)}

\* The item type of every item; the notebook filters on itemType="report".
ItemType == [k \in Keys |-> IF k = "NOTE01" THEN "note" ELSE "report"]

\* Library ids a handle may be built for (the notebook hard-codes the first).
LibraryIds == {"4530692", "12"}

\* The url another client of the library writes.
OtherUrl == "https://example.org/edited"

VARIABLES
    api_key_present,  \* whether os.environ holds Z_API_KEY
    library_id,       \* the library the handle z_ni43101 is built for
    remote,           \* the remote library: key -> [version, url]
    writes,           \* number of writes by other clients so far
    pc,               \* position of the notebook's execution
    report_items,     \* cell 4: the first page
    item_batch,       \* cell 5: the loop variable, the current page
    updates,          \* initial_batch_updates / batch_updates
    results_update,   \* the success flag of the last update_items call
    total_items,      \* the running total
    printed,          \* the lines printed so far
    calls,            \* collaborator-side log of calls issued and returned
    returned,         \* collaborator-side log of the pages handed out
    submitted,        \* collaborator-side log of the batches received
    run,              \* the number of the run under way
    first_run         \* the library as the first run left it (from run 2 on)

vars == <<api_key_present, library_id, remote, writes, pc, report_items,
          item_batch, updates, results_update, total_items, printed, calls,
          returned, submitted, run, first_run>>

\* What no step of a run changes.
session == <<api_key_present, library_id, run, first_run>>

local == <<report_items, item_batch, updates, results_update, total_items>>

(* ------------------------------ helpers -------------------------------- *)

Min(a, b) == IF a < b THEN a ELSE b

RECURSIVE SumLen(_)
\* Total number of elements of a sequence of sequences.
SumLen(ss) == IF ss = <<>> THEN 0 ELSE Len(ss[1]) + SumLen(Tail(ss))

\* Variant of FilteredOrder: the item type filter is left out of the fetch.
FilteredOrder_NoFilter(item_type) == CollectionOrder

\* The keys that match a filter on the item type, in listing order.
FilteredOrder(item_type) ==
    SelectSeq(CollectionOrder, LAMBDA k : ItemType[k] = item_type)

\* An item as the client returns it: the fields the notebook reads.
ItemOf(rem, lib, k) ==
    [key |-> k, version |-> rem[k].version, library |-> [id |-> lib]]

\* The page of n items that follows the `served` items already handed out,
\* read from the remote library as it is now.
PageAt(rem, lib, item_type, served, n) ==
    [i \in 1..n |-> ItemOf(rem, lib, FilteredOrder(item_type)[served + i])]

\* Page sizes the collaborator can hand out next.
PageSizes(item_type, served) ==
    0..Min(MaxPageSize, Len(FilteredOrder(item_type)) - served)

(* ------------------- cell 2: the functions of the notebook ------------- *)

\* The fixed prefix of every derived url (line 32).
BasePrefix == "https://w3id.org/usgs/z"

\* Variant of add_w3id_url: the update request carries no item version.
add_w3id_url_NoVersion(item) ==
    [key |-> item.key, version |-> 0,
     url |-> "https://w3id.org/usgs/z/" \o item.library.id \o "/" \o item.key]

\* Variant of add_w3id_url: the url of an item that was edited before names
\* the version of the item.
add_w3id_url_Versioned(item) ==
    [key |-> item.key, version |-> item.version,
     url |-> "https://w3id.org/usgs/z/" \o item.library.id \o "/" \o item.key
               \o (IF item.version > 1 THEN "?v" ELSE "")]

\* Variant of add_w3id_url: key and library id change places in the url.
add_w3id_url_Swapped(item) ==
    [key |-> item.key, version |-> item.version,
     url |-> "https://w3id.org/usgs/z/" \o item.key \o "/" \o item.library.id]

\* def add_w3id_url(item)
add_w3id_url(item) ==
    LET lib_id   == item.library.id
        item_key == item.key
        w3id_url == "https://w3id.org/usgs/z/" \o lib_id \o "/" \o item_key
    IN  [key |-> item_key, version |-> item.version, url |-> w3id_url]

\* Variant of process_batch: the requests come out in reverse page order.
process_batch_Reversed(batch) ==
    [i \in 1..Len(batch) |-> add_w3id_url(batch[Len(batch) + 1 - i])]

\* Variant of process_batch: the last item of the page is left out.
process_batch_DropLast(batch) ==
    [i \in 1..(Len(batch) - Min(1, Len(batch))) |-> add_w3id_url(batch[i])]

\* def process_batch(batch)
process_batch(batch) == [i \in 1..Len(batch) |-> add_w3id_url(batch[i])]

(* ----------------------- the collaborator's contract ------------------- *)

\* One update request applied to the library: accepted when the version it
\* carries is the item's current version, rejected otherwise.
ApplyUpdate(rem, u) ==
    IF u.key \in DOMAIN rem /\ rem[u.key].version = u.version
    THEN [rem EXCEPT ![u.key] = [version |-> @.version + 1, url |-> u.url]]
    ELSE rem

RECURSIVE ApplyUpdates(_, _)
ApplyUpdates(rem, batch) ==
    IF batch = <<>> THEN rem
    ELSE ApplyUpdates(ApplyUpdate(rem, Head(batch)), Tail(batch))

Accepts(rem, u) == u.key \in DOMAIN rem /\ rem[u.key].version = u.version

\* update_items(batch): when the service fails the call (ok = FALSE) nothing
\* is applied; otherwise every request whose version matches is applied.
\* The success flag is TRUE only when every request was applied.
SubmitUpdates(rem, batch, ok) ==
    IF ok
    THEN [remote  |-> ApplyUpdates(rem, batch),
          success |-> \A i \in 1..Len(batch) : Accepts(rem, batch[i])]
    ELSE [remote |-> rem, success |-> FALSE]

(* -------------------------------- Init --------------------------------- *)

Init ==
    /\ api_key_present \in BOOLEAN
    /\ library_id \in LibraryIds
    /\ remote = [k \in Keys |-> [version |-> 1, url |-> ""]]
    /\ writes = 0
    /\ pc = "cell3"
    /\ report_items = <<>>
    /\ item_batch = <<>>
    /\ updates = <<>>
    /\ results_update = FALSE
    /\ total_items = 0
    /\ printed = <<>>
    /\ calls = <<>>
    /\ returned = <<>>
    /\ submitted = <<>>
    /\ run = 1
    /\ first_run = [urls |-> [k \in Keys |-> ""], complete |-> FALSE]

(* ------------------------------- actions ------------------------------- *)

\* Variant of BuildHandle: a missing credential is replaced by a default.
BuildHandle_NoCheck ==
    /\ pc = "cell3"
    /\ pc' = "cell4"
    /\ UNCHANGED <<session, remote, writes, local,
                   printed, calls, returned, submitted>>

\* Cell 3: z_ni43101 = zotero.Zotero(..., api_key=os.environ["Z_API_KEY"]).
\* A missing variable raises KeyError and the run ends there.
BuildHandle ==
    /\ pc = "cell3"
    /\ pc' = IF api_key_present THEN "cell4" ELSE "raised"
    /\ UNCHANGED <<session, remote, writes, local,
                   printed, calls, returned, submitted>>

\* Cell 4: the call z_ni43101.items(itemType="report", limit=50) is issued.
ItemsCall ==
    /\ pc = "cell4"
    /\ pc' = "items_wait"
    /\ calls' = Append(calls, "items?")
    /\ UNCHANGED <<session, remote, writes, local,
                   printed, returned, submitted>>

\* Cell 4: items() returns the first page; iterfollow() only builds the
\* lazy iterator and calls nothing.
ItemsReturn ==
    /\ pc = "items_wait"
    /\ \E n \in PageSizes("report", 0) :
         LET page == PageAt(remote, library_id, "report", 0, n) IN
         /\ report_items' = page
         /\ returned' = Append(returned, page)
    /\ calls' = Append(calls, "items!")
    /\ pc' = "cell5"
    /\ UNCHANGED <<session, remote, writes, item_batch,
                   updates, results_update, total_items, printed, submitted>>

\* Variant of InitialBatch: an empty first page is not submitted.
InitialBatch_SkipEmpty ==
    /\ pc = "cell5"
    /\ total_items' = Len(report_items)
    /\ IF report_items = <<>>
       THEN /\ pc' = "for"
            /\ UNCHANGED <<updates, submitted, calls>>
       ELSE /\ updates' = process_batch(report_items)
            /\ submitted' = Append(submitted, updates')
            /\ calls' = Append(calls, "update?")
            /\ pc' = "initial_wait"
    /\ UNCHANGED <<session, remote, writes, report_items,
                   item_batch, results_update, printed, returned>>

\* Cell 5, lines 238-241: the total starts at the size of the first page,
\* the first batch is built and update_items is called with it.
InitialBatch ==
    /\ pc = "cell5"
    /\ total_items' = Len(report_items)
    /\ updates' = process_batch(report_items)
    /\ submitted' = Append(submitted, updates')
    /\ calls' = Append(calls, "update?")
    /\ pc' = "initial_wait"
    /\ UNCHANGED <<session, remote, writes, report_items,
                   item_batch, results_update, printed, returned>>

\* Cell 5, lines 241-242: update_items returns for the first batch and the
\* result is printed.
InitialUpdateReturn ==
    /\ pc = "initial_wait"
    /\ \E ok \in BOOLEAN :
         LET r == SubmitUpdates(remote, updates, ok) IN
         /\ remote' = r.remote
         /\ results_update' = r.success
         /\ printed' = Append(printed,
              <<"PROCESSED INITIAL BATCH", Len(updates), r.success>>)
    /\ calls' = Append(calls, "update!")
    /\ pc' = "for"
    /\ UNCHANGED <<session, writes, report_items,
                   item_batch, updates, total_items, returned, submitted>>

\* Cell 5, line 244: the for statement asks the iterator for the next page.
ForNext ==
    /\ pc = "for"
    /\ calls' = Append(calls, "follow?")
    /\ pc' = "follow_wait"
    /\ UNCHANGED <<session, remote, writes, local,
                   printed, returned, submitted>>

\* Variant of FollowReturn: an empty page ends the loop.
FollowReturn_StopAtEmpty ==
    /\ pc = "follow_wait"
    /\ Len(returned) < MaxPages
    /\ \E n \in PageSizes("report", SumLen(returned)) :
         LET page == PageAt(remote, library_id, "report", SumLen(returned), n)
         IN  /\ item_batch' = page
             /\ returned' = Append(returned, page)
             /\ pc' = IF page = <<>> THEN "report" ELSE "batch"
    /\ calls' = Append(calls, "follow!")
    /\ UNCHANGED <<session, remote, writes, report_items,
                   updates, results_update, total_items, printed, submitted>>

\* Line 244: the iterator yields the next page.
FollowReturn ==
    /\ pc = "follow_wait"
    /\ Len(returned) < MaxPages
    /\ \E n \in PageSizes("report", SumLen(returned)) :
         LET page == PageAt(remote, library_id, "report", SumLen(returned), n)
         IN  /\ item_batch' = page
             /\ returned' = Append(returned, page)
    /\ calls' = Append(calls, "follow!")
    /\ pc' = "batch"
    /\ UNCHANGED <<session, remote, writes, report_items,
                   updates, results_update, total_items, printed, submitted>>

\* Line 244: the iterator is exhausted and the loop ends.
FollowExhausted ==
    /\ pc = "follow_wait"
    /\ calls' = Append(calls, "follow.")
    /\ pc' = "report"
    /\ UNCHANGED <<session, remote, writes, local,
                   printed, returned, submitted>>

\* Variant of NextBatch: the requests of the page are added to the batch of
\* the page before instead of replacing it.
NextBatch_Merge ==
    /\ pc = "batch"
    /\ updates' = updates \o process_batch(item_batch)
    /\ submitted' = Append(submitted, updates')
    /\ calls' = Append(calls, "update?")
    /\ pc' = "next_wait"
    /\ UNCHANGED <<session, remote, writes, report_items,
                   item_batch, results_update, total_items, printed, returned>>

\* Variant of NextBatch: the next page is requested while the update call is
\* still under way.
NextBatch_Prefetch ==
    /\ pc = "batch"
    /\ updates' = process_batch(item_batch)
    /\ submitted' = Append(submitted, updates')
    /\ calls' = calls \o <<"update?", "follow?">>
    /\ pc' = "next_wait"
    /\ UNCHANGED <<session, remote, writes, report_items,
                   item_batch, results_update, total_items, printed, returned>>

\* Lines 245-246: the batch of the current page is built and update_items is
\* called with it.
NextBatch ==
    /\ pc = "batch"
    /\ updates' = process_batch(item_batch)
    /\ submitted' = Append(submitted, updates')
    /\ calls' = Append(calls, "update?")
    /\ pc' = "next_wait"
    /\ UNCHANGED <<session, remote, writes, report_items,
                   item_batch, results_update, total_items, printed, returned>>

\* Variant of NextUpdateReturn: a batch reported failed ends the loop.
NextUpdateReturn_StopOnFailure ==
    /\ pc = "next_wait"
    /\ \E ok \in BOOLEAN :
         LET r == SubmitUpdates(remote, updates, ok) IN
         /\ remote' = r.remote
         /\ results_update' = r.success
         /\ printed' = Append(printed,
              <<"PROCESSED NEXT BATCH", Len(updates), r.success>>)
         /\ pc' = IF r.success THEN "for" ELSE "report"
    /\ total_items' = total_items + Len(item_batch)
    /\ calls' = Append(calls, "update!")
    /\ UNCHANGED <<session, writes, report_items,
                   item_batch, updates, returned, submitted>>

\* Variant of NextUpdateReturn: only a batch reported successful is counted.
NextUpdateReturn_CountSuccess ==
    /\ pc = "next_wait"
    /\ \E ok \in BOOLEAN :
         LET r == SubmitUpdates(remote, updates, ok) IN
         /\ remote' = r.remote
         /\ results_update' = r.success
         /\ printed' = Append(printed,
              <<"PROCESSED NEXT BATCH", Len(updates), r.success>>)
         /\ total_items' =
              IF r.success THEN total_items + Len(item_batch) ELSE total_items
    /\ calls' = Append(calls, "update!")
    /\ pc' = "for"
    /\ UNCHANGED <<session, writes, report_items,
                   item_batch, updates, returned, submitted>>

\* Lines 246-248: update_items returns, the result is printed and the size
\* of the page is added to the total, whatever the result.
NextUpdateReturn ==
    /\ pc = "next_wait"
    /\ \E ok \in BOOLEAN :
         LET r == SubmitUpdates(remote, updates, ok) IN
         /\ remote' = r.remote
         /\ results_update' = r.success
         /\ printed' = Append(printed,
              <<"PROCESSED NEXT BATCH", Len(updates), r.success>>)
    /\ total_items' = total_items + Len(item_batch)
    /\ calls' = Append(calls, "update!")
    /\ pc' = "for"
    /\ UNCHANGED <<session, writes, report_items,
                   item_batch, updates, returned, submitted>>

\* Line 250: the total is printed and the run is complete.
Report ==
    /\ pc = "report"
    /\ printed' = Append(printed, <<"TOTAL ITEMS PROCESSED", total_items>>)
    /\ pc' = "done"
    /\ UNCHANGED <<session, remote, writes, local,
                   calls, returned, submitted>>

\* Variant of RaiseError: the error is swallowed and the total is reported.
RaiseError_Caught ==
    /\ pc \in {"items_wait", "initial_wait", "follow_wait", "next_wait"}
    /\ calls' = Append(calls, "raise")
    /\ pc' = "report"
    /\ UNCHANGED <<session, remote, writes, local,
                   printed, returned, submitted>>

\* A call to the collaborator raises (network or service error).  Nothing in
\* the notebook catches it: the cell stops with the exception.
RaiseError ==
    /\ pc \in {"items_wait", "initial_wait", "follow_wait", "next_wait"}
    /\ calls' = Append(calls, "raise")
    /\ pc' = "raised"
    /\ UNCHANGED <<session, remote, writes, local,
                   printed, returned, submitted>>

\* Another client of the library edits one of the report items: the version
\* of the item advances.
OtherWriter ==
    /\ writes < MaxWrites
    /\ run = 1
    /\ \E k \in {key \in Keys : ItemType[key] = "report"} :
         remote' = [remote EXCEPT
                      ![k] = [version |-> @.version + 1, url |-> OtherUrl]]
    /\ writes' = writes + 1
    /\ UNCHANGED <<session, pc, local, printed, calls,
                   returned, submitted>>

Updater ==
    \/ BuildHandle
    \/ ItemsCall
    \/ ItemsReturn
    \/ InitialBatch
    \/ InitialUpdateReturn
    \/ ForNext
    \/ FollowReturn
    \/ FollowExhausted
    \/ NextBatch
    \/ NextUpdateReturn
    \/ Report

Next == Updater \/ RaiseError \/ OtherWriter

Spec == Init /\ [][Next]_vars

\* The notebook is run again, from its first cell and with a fresh kernel,
\* over a library that no other client has written to; what the run that has
\* just ended left behind is recorded when it was the first run.  The logs
\* of the collaborator start anew with the run.
Rerun ==
    /\ pc \in {"done", "raised"}
    /\ run < MaxRuns
    /\ writes = 0
    /\ run' = run + 1
    /\ first_run' =
         IF run = 1
         THEN [urls     |-> [k \in Keys |-> remote[k].url],
               complete |-> /\ pc = "done"
                            /\ SumLen(returned) = Len(FilteredOrder("report"))]
         ELSE first_run
    /\ pc' = "cell3"
    /\ report_items' = <<>>
    /\ item_batch' = <<>>
    /\ updates' = <<>>
    /\ results_update' = FALSE
    /\ total_items' = 0
    /\ printed' = <<>>
    /\ calls' = <<>>
    /\ returned' = <<>>
    /\ submitted' = <<>>
    /\ UNCHANGED <<api_key_present, library_id, remote, writes>>

\* Runs of the notebook one after the other.
RerunSpec == Init /\ [][Next \/ Rerun]_vars

\* The notebook is one sequential thread that keeps executing, and every
\* blocking call to the collaborator comes back: with a page, with the end of
\* the iteration, or (RaiseError, no fairness) with an error.
LiveSpec == Spec /\ WF_vars(Updater)

(* ============================== the claims ============================= *)

\* The total printed by the last line of the run.
ReportedTotal == printed[Len(printed)][2]

\* The sizes of the elements of a sequence of sequences.
Sizes(ss) == [k \in 1..Len(ss) |-> Len(ss[k])]

\* Number of places of a log of pages or batches that hold the key.
Occurrences(log, key) ==
    Cardinality({ki \in (1..Len(log)) \X (1..MaxPageSize) :
                   /\ ki[2] <= Len(log[ki[1]])
                   /\ log[ki[1]][ki[2]].key = key})

\* C1: one update_items call is issued for every page handed out, in page
\* order, the k-th call carrying as many update requests as the k-th page has
\* items; while the run is under way the calls issued are those for the pages
\* handed out so far (at most the newest page is still to be submitted), and
\* a completed run has submitted every page and reports the sum of the sizes
\* of its calls.
C1_OneSubmitPerPage ==
    /\ Len(submitted) <= Len(returned)
    /\ Len(returned) <= Len(submitted) + 1
    /\ Sizes(submitted) = SubSeq(Sizes(returned), 1, Len(submitted))
    /\ pc \in {"report", "done"} => Sizes(submitted) = Sizes(returned)
    /\ pc = "done" => ReportedTotal = SumLen(submitted)

C1_Witness ==
    /\ pc = "done"
    /\ Sizes(returned) = <<2, 1, 0>>
    /\ Sizes(submitted) = <<2, 1, 0>>
    /\ ReportedTotal = 3

\* C2: when the run completes, the total it reports is the sum of the sizes
\* of all the pages the collaborator handed out during the run.
C2_TotalIsSumOfPages ==
    pc = "done" => /\ total_items = SumLen(returned)
                   /\ ReportedTotal = SumLen(returned)

C2_Witness ==
    /\ pc = "done"
    /\ Len(returned) = 3
    /\ SumLen(returned) = 3
    /\ \E i \in 1..Len(printed) : printed[i][1] = "PROCESSED NEXT BATCH"
                                   /\ printed[i][3] = FALSE

\* C3 as stated: with an empty first page and an iterator that is exhausted
\* at once, a completed run has issued no update_items call and reports 0.
C3_NoSubmitWhenEmpty ==
    (pc = "done" /\ returned = << <<>> >>) =>
        (submitted = <<>> /\ ReportedTotal = 0)

\* C3 as amended: with an empty first page and an iterator that is exhausted
\* at once, a completed run has issued exactly one update_items call, which
\* carries no update request, and reports 0.
C3_OneEmptySubmitWhenEmpty ==
    (pc = "done" /\ returned = << <<>> >>) =>
        /\ submitted = << <<>> >>
        /\ Len(printed) = 2
        /\ printed[1][1] = "PROCESSED INITIAL BATCH"
        /\ printed[1][2] = 0
        /\ ReportedTotal = 0

C3_Witness == pc = "done" /\ returned = << <<>> >>

\* C4: every item of every page handed out has one update request, in the
\* batch built from its page and at the item's position in the page; in a
\* completed run every key is submitted as often as it was handed out, which
\* with non-overlapping pages is at most once.
NonOverlapping == \A key \in Keys : Occurrences(returned, key) <= 1

C4_OneRequestPerItem ==
    /\ \A k \in 1..Len(submitted) :
         /\ Len(submitted[k]) = Len(returned[k])
         /\ \A i \in 1..Len(returned[k]) :
              submitted[k][i].key = returned[k][i].key
    /\ \A key \in Keys : Occurrences(submitted, key) <= Occurrences(returned, key)
    /\ pc = "done" =>
         \A key \in Keys : Occurrences(submitted, key) = Occurrences(returned, key)
    /\ NonOverlapping => \A key \in Keys : Occurrences(submitted, key) <= 1

C4_Witness ==
    /\ pc = "done"
    /\ Len(returned) = 2
    /\ Len(returned[1]) = 2
    /\ Len(returned[2]) = 1
    /\ \A key \in {"ABC123", "DEF456", "GHI789"} : Occurrences(submitted, key) = 1

\* C5: the url of every update request is the prefix, "/", the library id of
\* its item, "/", the key of its item; the url is the same whatever the
\* version of the item; for library 4530692 and key ABC123 it is
\* https://w3id.org/usgs/z/4530692/ABC123.
C5_DerivedUrl ==
    /\ \A k \in 1..Len(submitted) : \A i \in 1..Len(submitted[k]) :
         submitted[k][i].url =
           BasePrefix \o "/" \o returned[k][i].library.id
                      \o "/" \o returned[k][i].key
    /\ \A k \in 1..Len(returned) : \A i \in 1..Len(returned[k]) :
         add_w3id_url(ItemOf(remote, library_id, returned[k][i].key)).url
           = add_w3id_url(returned[k][i]).url
    /\ add_w3id_url([key |-> "ABC123", version |-> 7,
                     library |-> [id |-> "4530692"]]).url
         = "https://w3id.org/usgs/z/4530692/ABC123"

C5_Witness ==
    /\ library_id = "4530692"
    /\ Len(submitted) >= 1
    /\ Len(submitted[1]) >= 1
    /\ submitted[1][1].key = "ABC123"
    /\ submitted[1][1].url = "https://w3id.org/usgs/z/4530692/ABC123"
    /\ remote["ABC123"].version > 1

\* The lines printed for the batches, and whether one reported a failure.
IsTotalLine(line) == line[1] = "TOTAL ITEMS PROCESSED"

FailureReported ==
    \E i \in 1..Len(printed) : ~IsTotalLine(printed[i]) /\ printed[i][3] = FALSE

\* A step in which update_items returns success = FALSE.
FailedReturn ==
    /\ Len(printed') = Len(printed) + 1
    /\ ~IsTotalLine(printed'[Len(printed')])
    /\ printed'[Len(printed')][3] = FALSE

\* The url the updater derives for a key of the library of the handle.
DerivedUrlOf(key) == BasePrefix \o "/" \o library_id \o "/" \o key

\* C6: when update_items returns success = FALSE the run is at the head of
\* the loop again, with no batch submitted anew and the size of the failed
\* batch in the total; no step of the run undoes an applied update (an item
\* changes only by another client's write or by receiving its derived url);
\* and a completed run in which a failure was reported has submitted every
\* page and reports the sum of the sizes of all pages.
C6_FailureDoesNotStop ==
    /\ [][FailedReturn =>
            /\ pc' = "for"
            /\ total_items' = SumLen(returned')
            /\ submitted' = submitted
            /\ returned' = returned]_vars
    /\ [][\A key \in Keys :
            remote'[key] # remote[key] =>
              \/ writes' # writes
              \/ /\ remote'[key].url = DerivedUrlOf(key)
                 /\ remote'[key].version = remote[key].version + 1]_vars
    /\ []((pc = "done" /\ FailureReported) =>
            /\ Sizes(submitted) = Sizes(returned)
            /\ ReportedTotal = SumLen(returned))

C6_Witness ==
    /\ pc = "done"
    /\ Sizes(returned) = <<1, 1, 1>>
    /\ printed[1][3] = TRUE
    /\ printed[2][3] = FALSE
    /\ printed[3][3] = TRUE
    /\ remote["ABC123"].url = DerivedUrlOf("ABC123")
    /\ remote["GHI789"].url = DerivedUrlOf("GHI789")
    /\ ReportedTotal = 3

IsRequest(c) == c \in {"items?", "follow?", "update?"}
IsFetchRequest(c) == c \in {"items?", "follow?"}
IsPage(c) == c \in {"items!", "follow!"}

IsAnswer(c) == ~IsRequest(c)

\* C7: the calls to the collaborator are strictly sequential: a call is
\* issued only when the call before it has come back, so at most one call is
\* under way at any time; the first call is the first fetch; the fetch of a
\* further page is issued right after a submit has returned, and a submit
\* right after a page has arrived.
C7_StrictlySequential ==
    \A i \in 1..Len(calls) :
      /\ (i = 1) = (calls[i] = "items?")
      /\ IsAnswer(calls[i]) => (i > 1 /\ IsRequest(calls[i - 1]))
      /\ calls[i] = "follow?" => calls[i - 1] = "update!"
      /\ calls[i] = "update?" => IsPage(calls[i - 1])
      /\ IsPage(calls[i]) => IsFetchRequest(calls[i - 1])
      /\ calls[i] = "update!" => calls[i - 1] = "update?"

C7_Witness ==
    /\ pc = "done"
    /\ calls = <<"items?", "items!", "update?", "update!",
                 "follow?", "follow!", "update?", "update!",
                 "follow?", "follow!", "update?", "update!",
                 "follow?", "follow.">>

\* A step in which update_items returns.
UpdateReturns == calls' = Append(calls, "update!")

\* C8: every update request carries the key and the version of its item in
\* the page the updater read; when update_items returns, an item whose remote
\* version differs from the version of its request is left as it was; and no
\* key is submitted more often than it was handed out (with non-overlapping
\* pages: at most once in the run).
C8_VersionOfSnapshot ==
    /\ [](\A k \in 1..Len(submitted) : \A i \in 1..Len(submitted[k]) :
            /\ i <= Len(returned[k])
            /\ submitted[k][i].key = returned[k][i].key
            /\ submitted[k][i].version = returned[k][i].version)
    /\ [][UpdateReturns =>
            \A i \in 1..Len(updates) :
              remote[updates[i].key].version # updates[i].version =>
                remote'[updates[i].key] = remote[updates[i].key]]_vars
    /\ [](\A key \in Keys :
            /\ Occurrences(submitted, key) <= Occurrences(returned, key)
            /\ NonOverlapping => Occurrences(submitted, key) <= 1)

C8_Witness ==
    /\ pc = "done"
    /\ Len(submitted[1]) = 2
    /\ submitted[1][1].key = "ABC123"
    /\ submitted[1][1].version = 1
    /\ remote["ABC123"] = [version |-> 2, url |-> OtherUrl]
    /\ remote["DEF456"].url = DerivedUrlOf("DEF456")
    /\ Occurrences(submitted, "ABC123") = 1

\* C9: a call that raises ends the run at that call: the run is then in its
\* failed state with the raise as the last entry of the call log, and from
\* then on no call is issued, nothing is printed (so no total is reported),
\* and the library changes only by other clients' writes.
C9_ErrorEndsRun ==
    /\ [][calls' = Append(calls, "raise") =>
            (pc' = "raised" /\ remote' = remote)]_vars
    /\ [][pc = "raised" =>
            /\ pc' = "raised"
            /\ calls' = calls
            /\ submitted' = submitted
            /\ returned' = returned
            /\ printed' = printed
            /\ total_items' = total_items
            /\ (remote' = remote \/ writes' # writes)]_vars
    /\ [](pc = "raised" =>
            /\ \A i \in 1..Len(printed) : ~IsTotalLine(printed[i])
            /\ calls # <<>> => calls[Len(calls)] = "raise")
    /\ [](\A i \in 1..Len(calls) : calls[i] = "raise" => i = Len(calls))

C9_Witness ==
    /\ pc = "raised"
    /\ calls = <<"items?", "items!", "update?", "update!",
                 "follow?", "follow!", "update?", "raise">>
    /\ printed[1][3] = TRUE
    /\ Len(returned[1]) = 1
    /\ remote["ABC123"].url = DerivedUrlOf("ABC123")

Exhausted == \E i \in 1..Len(calls) : calls[i] = "follow."

\* C10: the run reaches its final report only after the iterator has
\* signalled exhaustion, and once the iterator has signalled exhaustion the
\* run does reach it; the loop ends right after the submit of the last page;
\* with the collaborator handing out finitely many pages, every run ends,
\* completed or with an error.
C10_TerminatesIffExhausted ==
    /\ [](pc \in {"report", "done"} => Exhausted)
    /\ [](Exhausted =>
            /\ calls[Len(calls)] = "follow."
            /\ calls[Len(calls) - 2] = "update!"
            /\ Sizes(submitted) = Sizes(returned))
    /\ (Exhausted ~> pc = "done")
    /\ <>(pc \in {"done", "raised"})

C10_Witness ==
    /\ pc = "done"
    /\ Exhausted
    /\ Len(returned) = MaxPages
    /\ SumLen(returned) = 3

\* The keys of a page or of a batch.
KeysOf(seq) == {seq[i].key : i \in 1..Len(seq)}

\* C11: provided no page handed out has more items than the maximum page
\* size, no batch submitted has more update requests than that; the batch of
\* a page holds requests for the items of that page only, never for items of
\* another page.
C11_BatchWithinPageSize ==
    (\A k \in 1..Len(returned) : Len(returned[k]) <= MaxPageSize) =>
        \A k \in 1..Len(submitted) :
          /\ Len(submitted[k]) <= MaxPageSize
          /\ KeysOf(submitted[k]) \subseteq KeysOf(returned[k])
          /\ \A j \in 1..Len(returned) :
               j # k => KeysOf(submitted[k]) \cap KeysOf(returned[j]) = {}

C11_Witness ==
    /\ pc = "done"
    /\ Len(submitted) = 2
    /\ Len(submitted[1]) = MaxPageSize
    /\ Len(submitted[2]) = 1
    /\ Len(returned[1]) + Len(returned[2]) > MaxPageSize

\* A step in which update_items returns success = TRUE.
SuccessfulReturn ==
    /\ UpdateReturns
    /\ printed'[Len(printed')][3] = TRUE

\* C12: when update_items returns success = TRUE every item of the batch has
\* its derived url; an update request holds the key and the version of its
\* item and the url, and nothing else; every request is for an item that the
\* filtered fetch handed out, a report; the items that are not reports stay
\* as they were.
C12_OnlyUrlOfMatchingItems ==
    /\ [][SuccessfulReturn =>
            \A i \in 1..Len(updates) :
              remote'[updates[i].key].url = DerivedUrlOf(updates[i].key)]_vars
    /\ [](\A k \in 1..Len(submitted) : \A i \in 1..Len(submitted[k]) :
            /\ DOMAIN submitted[k][i] = {"key", "version", "url"}
            /\ submitted[k][i].key \in KeysOf(returned[k])
            /\ ItemType[submitted[k][i].key] = "report")
    /\ [](\A key \in Keys :
            ItemType[key] # "report" => remote[key] = [version |-> 1, url |-> ""])

C12_Witness ==
    /\ pc = "done"
    /\ Len(returned[1]) = 2
    /\ printed[1][3] = TRUE
    /\ remote["ABC123"] = [version |-> 2, url |-> DerivedUrlOf("ABC123")]
    /\ remote["DEF456"] = [version |-> 2, url |-> DerivedUrlOf("DEF456")]
    /\ remote["NOTE01"] = [version |-> 1, url |-> ""]

\* C13: when the credential is missing the run fails while the handle is
\* built: no call to the collaborator is ever issued, no page is handed out,
\* no batch is submitted, nothing is printed, and the run changes no item
\* (an item changes only by another client's write).
C13_MissingCredentialIsFatal ==
    ~api_key_present =>
        /\ pc \in {"cell3", "raised"}
        /\ calls = <<>>
        /\ returned = <<>>
        /\ submitted = <<>>
        /\ printed = <<>>
        /\ \A key \in Keys : remote[key].url \in {"", OtherUrl}
        /\ writes = 0 => \A key \in Keys : remote[key] = [version |-> 1, url |-> ""]

C13_Witness ==
    /\ ~api_key_present
    /\ pc = "raised"
    /\ writes = 0

ReportKeys == {key \in Keys : ItemType[key] = "report"}

\* C14 as stated: in a second run over a library that no other client wrote
\* to, after a first run that completed and was handed all the report items,
\* every report item has the url it had when the first run ended.
C14_UrlsAsAfterFirstRun ==
    (run >= 2 /\ first_run.complete) =>
        \A key \in ReportKeys : remote[key].url = first_run.urls[key]

\* C14 as amended: in a later run over a library that no other client wrote
\* to, a report item that had its derived url when the first run ended keeps
\* that url (its version may advance); a report item that the first run left
\* without its derived url has either the url the first run left or its
\* derived url; the items that are not reports stay as they were.
C14_AppliedUrlsKept ==
    run >= 2 =>
        /\ \A key \in ReportKeys :
             /\ remote[key].url \in {first_run.urls[key], DerivedUrlOf(key)}
             /\ first_run.urls[key] = DerivedUrlOf(key) =>
                  remote[key].url = first_run.urls[key]
        /\ \A key \in Keys \ ReportKeys :
             remote[key] = [version |-> 1, url |-> ""]

C14_Witness ==
    /\ run = 2
    /\ pc = "done"
    /\ first_run.complete
    /\ first_run.urls["ABC123"] = DerivedUrlOf("ABC123")
    /\ remote["ABC123"] = [version |-> 3, url |-> DerivedUrlOf("ABC123")]

====
